---- MODULE Spec2Model ----
(***************************************************************************)
(* Reconciliation engine of the Tailscale ingress controller:              *)
(*   HttpController (controller_http.go): registry of per-host HTTP        *)
(*   proxies, rebuilt from Ingress snapshots by a mark-and-sweep pass;     *)
(*   TcpController (controller_tcp.go): registry of per-entry TCP proxies, *)
(*   rebuilt from one ConfigMap with signature-based change detection.     *)
(*                                                                         *)
(* Go strings are modelled as sequences of characters (one-character       *)
(* strings), so that strings.HasPrefix, strings.Contains, strings.Cut,     *)
(* strconv.Atoi, len() and fmt's %d are computed, not assumed.             *)
(* Each update pass runs under the registry's exclusive lock and is one    *)
(* action.  Objects that live outside the registry map (tsnet.Server,      *)
(* http.Server, tcpproxy.Proxy) carry their open/closed state inside the   *)
(* host record that owns the only reference to them; what a pass did to    *)
(* objects it dropped from the map is kept in a per-pass event record,     *)
(* each event naming the identity (tsServer.id) and the registry key.      *)
(***************************************************************************)
EXTENDS Integers, Sequences, FiniteSets, TLC

VARIABLES
    hosts,        \* HttpController.hosts: hostname -> HttpHost
    prevHosts,    \* history: HttpController.hosts when the last pass began
    payload,      \* history: the Ingress list of the last HTTP pass
    env,          \* history: what the outside world answered in the last HTTP pass
    events,       \* history: closes, creations and listens of the last HTTP pass
    passes,       \* number of HTTP passes run
    repeated,     \* history: the last HTTP pass had the payload of the one before
    crashed,      \* the process died of a Go panic
    tcpHosts,     \* TcpController.hosts: sourceSpec -> TcpHost
    prevTcpHosts, \* history: TcpController.hosts when the last pass began
    tcpPayload,   \* history: the ConfigMap list of the last TCP pass
    tcpEnv,       \* history: what the outside world answered in the last TCP pass
    tcpEvents,    \* history: closes and creations of the last TCP pass
    tcpPasses,    \* number of TCP passes run
    tcpRepeated,  \* history: the last TCP pass had the payload of the one before
    httpOp,       \* history: the last operation on the HTTP registry
    stopped,      \* HttpController.shutdown has returned
    tcpMu,        \* TcpController.mu: who holds the lock between two steps
    tcpOp,        \* history: the last operation on the TCP registry
    tcpStopped,   \* TcpController.shutdown has returned
    request,      \* history: the inbound request handled since the last pass
    whois,        \* history: what the peer-identity lookup answered for it
    response,     \* history: what the handler did with it
    mu,           \* HttpController.mu: [writer, readers]
    pass,         \* the update pass that holds mu, between two of its steps
    reader,       \* a request's getBackendUrl call, between two of its steps
    cs,           \* each caller of update or shutdown: out of, waiting for or in the lock
    proc          \* main and the signal goroutine: the signal channel, their positions

httpVars == <<hosts, prevHosts, payload, env, events, passes, repeated, httpOp, stopped>>
tcpVars == <<tcpHosts, prevTcpHosts, tcpPayload, tcpEnv, tcpEvents, tcpPasses, tcpRepeated,
             tcpMu, tcpOp, tcpStopped>>
serveVars == <<request, whois, response>>
lockVars == <<mu, pass, reader>>
procVars == <<cs, proc>>
vars == <<httpVars, tcpVars, serveVars, lockVars, procVars, crashed>>

(***************************************************************************)
(* Bounds of the model.                                                    *)
(***************************************************************************)
MaxPasses == 3
MaxGeneration == 2

(***************************************************************************)
(* Go strings and maps.                                                    *)
(***************************************************************************)
EmptyString == <<>>

\* a Go map with no entry (a nil map reads the same way)
EmptyMap == [k \in {} |-> {}]

MapPut(m, k, v) == [x \in (DOMAIN m) \cup {k} |-> IF x = k THEN v ELSE m[x]]

MapDelete(m, k) == [x \in (DOMAIN m) \ {k} |-> m[x]]

HasPrefix(s, prefix) ==
    /\ Len(prefix) <= Len(s)
    /\ SubSeq(s, 1, Len(prefix)) = prefix

Contains(s, c) == \E i \in 1..Len(s) : s[i] = c

\* position of the first c in s, 0 when there is none
Index(s, c) ==
    IF Contains(s, c)
    THEN CHOOSE i \in 1..Len(s) : s[i] = c /\ \A j \in 1..(i - 1) : s[j] # c
    ELSE 0

Cut(s, c) ==
    LET i == Index(s, c)
    IN  IF i = 0
        THEN [before |-> s, after |-> EmptyString, found |-> FALSE]
        ELSE [before |-> SubSeq(s, 1, i - 1),
              after |-> SubSeq(s, i + 1, Len(s)),
              found |-> TRUE]

Digits == <<"0", "1", "2", "3", "4", "5", "6", "7", "8", "9">>

IsDigit(c) == \E d \in 1..10 : Digits[d] = c

DigitValue(c) == (CHOOSE d \in 1..10 : Digits[d] = c) - 1

RECURSIVE DecimalValue(_)
DecimalValue(s) ==
    IF s = EmptyString THEN 0
    ELSE 10 * DecimalValue(SubSeq(s, 1, Len(s) - 1)) + DigitValue(s[Len(s)])

\* strconv.Atoi on an unsigned decimal token
Atoi(s) ==
    IF s # EmptyString /\ \A i \in 1..Len(s) : IsDigit(s[i])
    THEN [ok |-> TRUE, value |-> DecimalValue(s)]
    ELSE [ok |-> FALSE, value |-> 0]

RECURSIVE Itoa(_)
\* fmt's %d
Itoa(n) ==
    IF n < 0 THEN <<"-">> \o Itoa(0 - n)
    ELSE IF n < 10 THEN <<Digits[n + 1]>>
    ELSE Itoa(n \div 10) \o <<Digits[(n % 10) + 1]>>

\* the conversion int16(uint16 value)
Int16(n) ==
    LET m == n % 65536
    IN  IF m >= 32768 THEN m - 65536 ELSE m

(***************************************************************************)
(* resolveTargetAddress.  srv is the resolver's answer of this pass for    *)
(* each port name: [err, ports], ports the SRV records' ports in order.    *)
(***************************************************************************)
LookupSRV(srv, service) ==
    IF service \in DOMAIN srv THEN srv[service] ELSE [err |-> TRUE, ports |-> <<>>]

resolveTargetAddress(srv, targetAddress, targetPort) ==
    LET n == Atoi(targetPort)
        r == LookupSRV(srv, targetPort)
        port == IF Len(r.ports) > 0 THEN Int16(r.ports[1]) ELSE 0
    IN  IF n.ok
        THEN [ok |-> TRUE, address |-> targetAddress \o <<":">> \o Itoa(n.value)]
        ELSE IF r.err
             THEN [ok |-> FALSE, address |-> EmptyString]
             ELSE [ok |-> TRUE, address |-> targetAddress \o <<":">> \o Itoa(port)]

(***************************************************************************)
(* HttpController.                                                         *)
(*                                                                         *)
(* An Ingress is [Namespace, Generation, IngressClassName, Labels,         *)
(* Annotations, TLS, DefaultBackend, Rules]: IngressClassName is a string  *)
(* ("" for nil), Labels and Annotations the sets of label and annotation   *)
(* keys, TLS the set of hosts of all tls entries, DefaultBackend whether   *)
(* Spec.DefaultBackend is non-nil.  A rule is                              *)
(* [Host, HTTP, Paths] (HTTP: rule.HTTP is non-nil); a path is             *)
(* [Path, PathType, Service, Name, PortName, PortNumber] (PathType "nil"   *)
(* for a nil pointer; Service: Backend.Service is non-nil).                *)
(*                                                                         *)
(* The environment of a pass is [srv, dirFail, storeFail, listen]: the     *)
(* resolver's answers, the hostnames whose state directory cannot be       *)
(* created, those whose kubestore cannot be created, and per hostname the  *)
(* outcome of opening the listener ("ok", "listenErr", "clientErr").       *)
(***************************************************************************)
INGRESS_CLASS_NAME == "tailscale"

\* line 164: the metadata key of the Funnel flag
Funnel == "tailscale.com/funnel"

PathTypeExact == "Exact"

SvcClusterLocal == <<".svc.cluster.local">>

NoListener == [addr |-> "", funnel |-> FALSE, tls |-> FALSE]

NoEvents ==
    [created |-> {}, closedTs |-> {}, closedHttp |-> {}, attempts |-> {}, listens |-> {}]

\* the allocator: an object distinct from every object the pass can still reach
NewId(used) ==
    CHOOSE n \in 1..(Cardinality(used) + 1) :
        n \notin used /\ \A m \in 1..(n - 1) : m \in used

\* generateTsDir: the directory under the user config dir, or an error
generateTsDir(e, prefix, host) ==
    IF host \in e.dirFail
    THEN [ok |-> FALSE, dir |-> <<>>]
    ELSE [ok |-> TRUE, dir |-> <<prefix, host>>]

\* kubestore.New: the store's secret name, or nil after a logged error
kubestoreNew(e, prefix, host) ==
    IF host \in e.storeFail THEN <<"nil">> ELSE <<prefix, "-", host>>

\* sort.Search(len(l), func(i) { return len(l[i].value) < len(e.value) }),
\* the binary search on the half-open interval [i, j) of 0-based indices
RECURSIVE Search(_, _, _, _)
Search(l, e, i, j) ==
    IF i < j
    THEN LET h == (i + j) \div 2
         IN  IF ~(Len(l[h + 1].value) < Len(e.value))
             THEN Search(l, e, h + 1, j)
             ELSE Search(l, e, i, h)
    ELSE i

\* faulty variant of appendSorted: the entry always goes to the end
appendUnsorted(l, e) == Append(l, e)

appendSorted(l, e) ==
    LET i == Search(l, e, 0, Len(l))
    IN  IF i = Len(l)
        THEN Append(l, e)
        ELSE SubSeq(l, 1, i) \o <<e>> \o SubSeq(l, i + 1, Len(l))

\* faulty variant of MarkDeleted: the mark is forgotten
MarkNothing(hs) == hs

\* lines 149-151: mark every host
MarkDeleted(hs) == [h \in DOMAIN hs |-> [hs[h] EXCEPT !.deleted = TRUE]]

\* faulty variant of NeedsNewHost: an equal generation replaces the host too
NeedsNewHostOnEqual(hs, host, generation) ==
    \/ host \notin DOMAIN hs
    \/ hs[host].generation <= generation

\* faulty variant of NeedsNewHost: the generation is not looked at
NeedsNewHostIfAbsent(hs, host, generation) == host \notin DOMAIN hs

\* line 187: a host is (re)created when there is none or its generation is older
NeedsNewHost(hs, host, generation) ==
    \/ host \notin DOMAIN hs
    \/ hs[host].generation < generation

\* lines 215-229: the fresh HttpHost
NewHttpHost(id, host, dir, store, useTls, useFunnel, enableLogging, enableWebClient, generation) ==
    [tsServer |-> [id |-> id, Hostname |-> host, Dir |-> dir, Store |-> store,
                   RunWebClient |-> enableWebClient, closed |-> FALSE],
     httpServer |-> "nil",
     listener |-> NoListener,
     pathPrefixes |-> <<>>,
     pathMap |-> EmptyMap,
     started |-> FALSE,
     deleted |-> FALSE,
     useTls |-> useTls,
     useFunnel |-> useFunnel,
     enableLogging |-> enableLogging,
     generation |-> generation]

\* lines 188-198: the existing host of an older generation is torn down
CloseReplacedHost(st, host) ==
    [st EXCEPT !.hosts = MapDelete(st.hosts, host),
               !.ev.closedTs = @ \cup {[id |-> st.hosts[host].tsServer.id, host |-> host]}]

\* lines 186-231: st.skip tells that the rule was left with `continue`
EnsureHost(st, e, ingress, host) ==
    IF NeedsNewHost(st.hosts, host, ingress.Generation)
    THEN LET st1 == IF host \in DOMAIN st.hosts THEN CloseReplacedHost(st, host) ELSE st
             d == generateTsDir(e, "ts", host)
             id == NewId(st1.used)
             h == NewHttpHost(id, host, d.dir, kubestoreNew(e, "ts", host),
                              host \in ingress.TLS,
                              Funnel \in ingress.Labels,
                              "tailscale.com/logging" \in ingress.Labels,
                              "tailscale.com/webclient" \in ingress.Labels,
                              ingress.Generation)
         IN  IF ~d.ok
             THEN [st1 EXCEPT !.skip = TRUE]
             ELSE [st1 EXCEPT !.hosts = MapPut(st1.hosts, host, h),
                              !.used = @ \cup {id},
                              !.ev.created = @ \cup {[id |-> id, host |-> host]},
                              !.skip = FALSE]
    ELSE [st EXCEPT !.hosts[host].deleted = FALSE, !.skip = FALSE]

\* lines 246-267: the backend address of a path
BackendAddress(e, ingress, path) ==
    LET fqdn == path.Name \o <<".">> \o ingress.Namespace \o SvcClusterLocal
    IN  IF path.PortName # EmptyString
        THEN resolveTargetAddress(e.srv, fqdn, path.PortName)
        ELSE [ok |-> TRUE, address |-> fqdn \o <<":">> \o Itoa(path.PortNumber)]

\* lines 237-294, one iteration of the loop over rule.HTTP.Paths
ProcessPath(st, e, ingress, host, path) ==
    LET h0 == st.hosts[host]
        pm == IF path.Path \in DOMAIN h0.pathMap THEN h0.pathMap ELSE EmptyMap
        st1 == [st EXCEPT !.hosts[host].pathMap = pm]
        a == BackendAddress(e, ingress, path)
        p == [value |-> path.Path,
              exact |-> (path.PathType = PathTypeExact),
              backend |-> [Scheme |-> "http", Host |-> a.address],
              ord |-> Len(h0.pathPrefixes)]
    IN  IF path.PathType = "nil" THEN st1
        ELSE IF ~path.Service THEN [st1 EXCEPT !.crashed = TRUE]
        ELSE IF ~a.ok THEN st1
        ELSE [st1 EXCEPT !.hosts[host].pathMap = MapPut(pm, p.value, p),
                         !.hosts[host].pathPrefixes =
                             IF ~p.exact THEN appendSorted(@, p) ELSE @]

RECURSIVE ProcessPaths(_, _, _, _, _, _)
ProcessPaths(st, e, ingress, host, paths, i) ==
    IF i > Len(paths) \/ st.crashed THEN st
    ELSE ProcessPaths(ProcessPath(st, e, ingress, host, paths[i]),
                      e, ingress, host, paths, i + 1)

\* lines 173-295, one iteration of the loop over ingress.Spec.Rules
ProcessRule(st, e, ingress, rule) ==
    IF rule.Host = EmptyString THEN st
    ELSE IF Contains(rule.Host, "*") THEN st
    ELSE IF ~rule.HTTP THEN st
    ELSE LET st1 == EnsureHost(st, e, ingress, rule.Host)
         IN  IF st1.skip THEN st1
             ELSE IF ingress.DefaultBackend THEN st1
             ELSE ProcessPaths(st1, e, ingress, rule.Host, rule.Paths, 1)

RECURSIVE ProcessRules(_, _, _, _)
ProcessRules(st, e, ingress, i) ==
    IF i > Len(ingress.Rules) \/ st.crashed THEN st
    ELSE ProcessRules(ProcessRule(st, e, ingress, ingress.Rules[i]), e, ingress, i + 1)

\* lines 152-296, one iteration of the loop over payload.ingresses
ProcessIngress(st, e, ingress) ==
    IF ingress.IngressClassName # INGRESS_CLASS_NAME THEN st
    ELSE ProcessRules(st, e, ingress, 1)

RECURSIVE ProcessIngresses(_, _, _, _)
ProcessIngresses(st, e, ingresses, i) ==
    IF i > Len(ingresses) \/ st.crashed THEN st
    ELSE ProcessIngresses(ProcessIngress(st, e, ingresses[i]), e, ingresses, i + 1)

\* lines 317-323: the listener a host opens
Listen(h) ==
    IF h.useFunnel THEN [addr |-> ":443", funnel |-> TRUE, tls |-> FALSE]
    ELSE IF h.useTls THEN [addr |-> ":443", funnel |-> FALSE, tls |-> FALSE]
    ELSE [addr |-> ":80", funnel |-> FALSE, tls |-> FALSE]

\* lines 317-337: the listener the proxy server of a host is given
ListenerOf(h) ==
    IF h.useTls THEN [Listen(h) EXCEPT !.tls = TRUE] ELSE Listen(h)

\* the listener that the outcome of the attempt leaves open
ListenerLeft(h, outcome) == IF outcome = "clientErr" THEN Listen(h) ELSE ListenerOf(h)

\* a start that marks the host started whatever the listener attempt returned
StartHostAlways(h, outcome) ==
    IF h.started THEN h
    ELSE [h EXCEPT !.listener = ListenerLeft(h, outcome),
                   !.httpServer = "serving",
                   !.started = TRUE]

\* lines 309-378: a surviving host is started unless it already is
StartHost(h, outcome) ==
    IF h.started THEN h
    ELSE IF outcome = "listenErr" THEN h
    ELSE IF outcome = "clientErr" THEN [h EXCEPT !.listener = ListenerLeft(h, outcome)]
    ELSE [h EXCEPT !.listener = ListenerLeft(h, outcome),
                   !.httpServer = "serving",
                   !.started = TRUE]

ListenOutcome(e, host) == IF host \in DOMAIN e.listen THEN e.listen[host] ELSE "ok"

\* lines 297-379: the sweep.  Closing the http.Server of a host that never
\* started calls a method on a nil *http.Server, which panics.
Sweep(st, e) ==
    LET hs == st.hosts
        doomed == {n \in DOMAIN hs : hs[n].deleted}
        kept == (DOMAIN hs) \ doomed
        opened == {n \in kept : ~hs[n].started /\ ListenOutcome(e, n) # "listenErr"}
    IN  IF \E n \in doomed : hs[n].httpServer = "nil"
        THEN [st EXCEPT !.crashed = TRUE]
        ELSE [st EXCEPT
                !.hosts = [n \in kept |-> StartHost(hs[n], ListenOutcome(e, n))],
                !.ev.closedHttp = @ \cup {[id |-> hs[n].tsServer.id, host |-> n] : n \in doomed},
                !.ev.closedTs = @ \cup {[id |-> hs[n].tsServer.id, host |-> n] : n \in doomed},
                !.ev.attempts = @ \cup {[id |-> hs[n].tsServer.id, host |-> n] :
                                            n \in {k \in kept : ~hs[k].started}},
                !.ev.listens = @ \cup {[id |-> hs[n].tsServer.id, host |-> n,
                                        listener |-> ListenerLeft(hs[n], ListenOutcome(e, n))] :
                                           n \in opened}]

HostIds(hs) == {hs[h].tsServer.id : h \in DOMAIN hs}

\* HttpController.update
update(hs, ingresses, e) ==
    LET st0 == [hosts |-> MarkDeleted(hs), used |-> HostIds(hs), ev |-> NoEvents,
                skip |-> FALSE, crashed |-> FALSE]
        st1 == ProcessIngresses(st0, e, ingresses, 1)
    IN  IF st1.crashed THEN st1 ELSE Sweep(st1, e)

(***************************************************************************)
(* HttpController.update statement by statement, for what a reader could   *)
(* see of the registry while a pass is under way.  The pass walks the      *)
(* items <<i, k, j>> of its snapshot: j = 0 is the head of the loop body   *)
(* for rule k of Ingress i (lines 153-235), j > 0 its iteration for path j *)
(* (lines 237-294).                                                        *)
(***************************************************************************)
RECURSIVE ItemsOfRules(_, _, _)
ItemsOfRules(ingresses, i, k) ==
    IF k > Len(ingresses[i].Rules) THEN <<>>
    ELSE [j \in 1..(Len(ingresses[i].Rules[k].Paths) + 1) |-> <<i, k, j - 1>>]
         \o ItemsOfRules(ingresses, i, k + 1)

RECURSIVE Items(_, _)
Items(ingresses, i) ==
    IF i > Len(ingresses) THEN <<>>
    ELSE ItemsOfRules(ingresses, i, 1) \o Items(ingresses, i + 1)

\* what the pass does for one item
StepItem(st, e, ingresses, item) ==
    LET ingress == ingresses[item[1]]
        rule == ingress.Rules[item[2]]
    IN  IF ingress.IngressClassName # INGRESS_CLASS_NAME THEN st
        ELSE IF rule.Host = EmptyString THEN st
        ELSE IF Contains(rule.Host, "*") THEN st
        ELSE IF ~rule.HTTP THEN st
        ELSE IF item[3] = 0 THEN EnsureHost(st, e, ingress, rule.Host)
        ELSE IF st.skip THEN st
        ELSE IF ingress.DefaultBackend THEN st
        ELSE ProcessPath(st, e, ingress, rule.Host, rule.Paths[item[3]])

\* faulty variant of CanLock: the writer does not wait
CanLockAlways(m) == TRUE

\* sync.RWMutex: Lock waits until there is neither writer nor reader
CanLock(m) == ~m.writer /\ m.readers = 0

\* faulty variant of CanRLock: the reader does not wait for the writer
CanRLockAlways(m) == TRUE

\* sync.RWMutex: RLock waits until there is no writer
CanRLock(m) == ~m.writer

\* HttpController.getBackendUrl
NotFound == [found |-> FALSE, url |-> [Scheme |-> "", Host |-> EmptyString,
                                       Path |-> EmptyString, RawQuery |-> EmptyString]]

RECURSIVE FirstPrefix(_, _, _)
\* the first entry of pathPrefixes, from index i on, that is a prefix of path (0: none)
FirstPrefix(l, path, i) ==
    IF i > Len(l) THEN 0
    ELSE IF HasPrefix(path, l[i].value) THEN i
    ELSE FirstPrefix(l, path, i + 1)

getBackendUrl(hs, host, path, rawquery) ==
    IF host \notin DOMAIN hs THEN NotFound
    ELSE LET h == hs[host]
             i == FirstPrefix(h.pathPrefixes, path, 1)
         IN  IF path \in DOMAIN h.pathMap
             THEN [found |-> TRUE,
                   url |-> [Scheme |-> h.pathMap[path].backend.Scheme,
                            Host |-> h.pathMap[path].backend.Host,
                            Path |-> EmptyString, RawQuery |-> EmptyString]]
             ELSE IF i > 0
                  THEN [found |-> TRUE,
                        url |-> [Scheme |-> h.pathPrefixes[i].backend.Scheme,
                                 Host |-> h.pathPrefixes[i].backend.Host,
                                 Path |-> path, RawQuery |-> rawquery]]
                  ELSE NotFound

\* HttpController.shutdown: the hosts that are started are closed and removed
shutdown(hs) ==
    LET live == {n \in DOMAIN hs : hs[n].started}
    IN  [hosts |-> [n \in (DOMAIN hs) \ live |-> hs[n]],
         ev |-> [NoEvents EXCEPT
                    !.closedHttp = {[id |-> hs[n].tsServer.id, host |-> n] : n \in live},
                    !.closedTs = {[id |-> hs[n].tsServer.id, host |-> n] : n \in live}]]

(***************************************************************************)
(* The request handler of a started host (lines 339-368).                  *)
(*                                                                         *)
(* A request is [Host, Path, RawQuery, Header]; Header is an http.Header:  *)
(* a map from canonical header names to the list of the field's values.    *)
(* The answer of LocalClient.WhoIs is [err, profile, LoginName,            *)
(* DisplayName], profile telling whether UserProfile is non-nil.           *)
(* httputil.ReverseProxy calls the Director on a clone of the request,     *)
(* then removes the hop-by-hop headers from the clone, those named by the  *)
(* request's Connection header included, and sends the clone once.         *)
(***************************************************************************)
XWebauthUser == "X-Webauth-User"

XWebauthName == "X-Webauth-Name"

\* textproto.CanonicalMIMEHeaderKey on the header names that occur
CanonicalMIMEHeaderKey(token) ==
    IF token \in {<<"x-webauth-user">>, <<"X-Webauth-User">>} THEN XWebauthUser
    ELSE IF token \in {<<"x-webauth-name">>, <<"X-Webauth-Name">>} THEN XWebauthName
    ELSE IF token \in {<<"keep-alive">>, <<"Keep-Alive">>} THEN "Keep-Alive"
    ELSE token[1]

\* http.Header.Set: the field has the one value
HeaderSet(header, key, value) == MapPut(header, key, <<value>>)

\* http.Header.Del
HeaderDel(header, keys) == [k \in (DOMAIN header) \ keys |-> header[k]]

RECURSIVE Split(_, _)
\* strings.Split
Split(s, sep) ==
    LET c == Cut(s, sep)
    IN  IF c.found THEN <<c.before>> \o Split(c.after, sep) ELSE <<s>>

\* the header names that the values of the Connection field list
ConnectionTokens(header) ==
    IF "Connection" \notin DOMAIN header THEN {}
    ELSE UNION {{CanonicalMIMEHeaderKey(Split(header["Connection"][i], ",")[j]) :
                    j \in {n \in 1..Len(Split(header["Connection"][i], ",")) :
                              Split(header["Connection"][i], ",")[n] # EmptyString}} :
                i \in 1..Len(header["Connection"])}

HopHeaders == {"Connection", "Proxy-Connection", "Keep-Alive", "Proxy-Authenticate",
               "Proxy-Authorization", "Te", "Trailer", "Transfer-Encoding", "Upgrade"}

\* ReverseProxy: the hop-by-hop headers leave the outbound request
removeHopByHopHeaders(header) ==
    HeaderDel(header, ConnectionTokens(header) \cup HopHeaders)

\* lines 349-365: the Director, on the headers of the outbound request
director(header, who) ==
    IF who.err THEN header
    ELSE IF ~who.profile THEN header
    ELSE HeaderSet(HeaderSet(header, XWebauthUser, who.LoginName),
                   XWebauthName, who.DisplayName)

\* the text handed to http.Error (line 345)
NotFoundMessage(rh) == <<"upstream server ">> \o rh \o <<" not found">>

\* faulty variant of handler: a request without route is forwarded all the same
handlerForwardsAll(hs, r, who) ==
    [status |-> "proxied", message |-> EmptyString,
     forwarded |-> <<[URL |-> getBackendUrl(hs, Cut(r.Host, ".").before, r.Path, r.RawQuery).url,
                      Header |-> removeHopByHopHeaders(director(r.Header, who))]>>]

\* lines 339-368: the handler; forwarded lists the requests sent to a backend
handler(hs, r, who) ==
    LET rh == Cut(r.Host, ".").before
        backendURL == getBackendUrl(hs, rh, r.Path, r.RawQuery)
    IN  IF ~backendURL.found
        THEN [status |-> "404", message |-> NotFoundMessage(rh), forwarded |-> <<>>]
        ELSE [status |-> "proxied", message |-> EmptyString,
              forwarded |-> <<[URL |-> backendURL.url,
                               Header |-> removeHopByHopHeaders(director(r.Header, who))]>>]

(***************************************************************************)
(* TcpController.                                                          *)
(*                                                                         *)
(* A ConfigMap is [Name, Data], Data a map from sourceSpec to targetSpec.  *)
(* Go walks a map in an unspecified order; the entries of one ConfigMap    *)
(* read and write disjoint keys of the registry, so the order shows only   *)
(* in which fresh object a key receives, and the entries are walked in the *)
(* order of SourceSpecOrder.                                               *)
(***************************************************************************)
\* the value of the environment variable TCP_SERVICES_CONFIGMAP
TCP_SERVICES_CONFIGMAP == "tcp-services"

NoTcpEvents == [created |-> {}, closedTs |-> {}, closedProxy |-> {}, routes |-> {}]

\* fmt.Sprintf("%s: %s", sourceSpec, targetSpec), lines 87 and 150
Signature(sourceSpec, targetSpec) == sourceSpec \o <<":", " ">> \o targetSpec

\* faulty variant of SignatureDiffers: every entry counts as changed
SignatureAlwaysDiffers(oldHost, sourceSpec, targetSpec) == TRUE

\* faulty variant of SignatureDiffers: no entry counts as changed
SignatureNeverDiffers(oldHost, sourceSpec, targetSpec) == FALSE

\* line 87: the entry is not the one the registered host was built from
SignatureDiffers(oldHost, sourceSpec, targetSpec) ==
    oldHost.signature # Signature(sourceSpec, targetSpec)

\* lines 104-111: the address of the target service
TargetAddress(targetServiceRef) ==
    LET ref == Cut(targetServiceRef, "/")
    IN  IF ref.found
        THEN ref.after \o <<".">> \o ref.before \o SvcClusterLocal
        ELSE targetServiceRef

\* lines 90-91: Close on the proxy and the identity of a registered host
CloseTcpHost(st, key) ==
    [st EXCEPT !.hosts[key].proxy.closed = TRUE,
               !.hosts[key].tsServer.closed = TRUE,
               !.ev.closedProxy = @ \cup {[id |-> st.hosts[key].tsServer.id, host |-> key]},
               !.ev.closedTs = @ \cup {[id |-> st.hosts[key].tsServer.id, host |-> key]}]

\* line 92: delete(c.hosts, tailnetHost)
DropReplaced(hs, sourceSpec, tailnetHost) == MapDelete(hs, tailnetHost)

\* lines 134-157: the fresh TcpHost with its route
\* proxy.Run() (lines 160-163) returns at once when tsServer.Listen fails for the
\* route; its error is dropped, the proxy is then not listening
NewTcpHost(id, tailnetHost, tailnetPort, dir, store, signature, fullTargetAddress, listening) ==
    [tsServer |-> [id |-> id, Hostname |-> tailnetHost, Dir |-> dir, Store |-> store,
                   closed |-> FALSE],
     proxy |-> [closed |-> FALSE, listening |-> listening,
                route |-> [listen |-> <<":">> \o tailnetPort, to |-> fullTargetAddress]],
     signature |-> signature]

\* lines 100-163: the host of an entry is built and registered
CreateTcpHost(st, e, sourceSpec, targetSpec, tailnetHost, tailnetPort, targetServiceRef, targetPort) ==
    LET r == resolveTargetAddress(e.srv, TargetAddress(targetServiceRef), targetPort)
        d == generateTsDir(e, "tsproxy", tailnetHost)
        id == NewId(st.used)
        h == NewTcpHost(id, tailnetHost, tailnetPort, d.dir,
                        kubestoreNew(e, "tsproxy", tailnetHost),
                        Signature(sourceSpec, targetSpec), r.address,
                        ListenOutcome(e, tailnetHost) # "listenErr")
    IN  IF ~r.ok THEN st
        ELSE IF ~d.ok THEN st
        ELSE [st EXCEPT !.hosts = MapPut(st.hosts, sourceSpec, h),
                        !.used = @ \cup {id},
                        !.ev.created = @ \cup {[id |-> id, host |-> sourceSpec]},
                        !.ev.routes = @ \cup {[id |-> id, host |-> sourceSpec,
                                               route |-> h.proxy.route]}]

\* lines 67-164, one iteration of the loop over configMap.Data
ProcessEntry(st, e, sourceSpec, targetSpec) ==
    LET source == Cut(sourceSpec, ".")
        target == Cut(targetSpec, ":")
        st1 == [st EXCEPT !.alive = @ \cup {sourceSpec}]
        st2 == LET closed == CloseTcpHost(st1, sourceSpec)
               IN  [closed EXCEPT !.hosts = DropReplaced(@, sourceSpec, source.before)]
    IN  IF ~source.found THEN st
        ELSE IF ~target.found THEN st
        ELSE IF sourceSpec \in DOMAIN st.hosts
             THEN IF SignatureDiffers(st.hosts[sourceSpec], sourceSpec, targetSpec)
                  THEN CreateTcpHost(st2, e, sourceSpec, targetSpec,
                                     source.before, source.after, target.before, target.after)
                  ELSE st1
             ELSE CreateTcpHost(st1, e, sourceSpec, targetSpec,
                                source.before, source.after, target.before, target.after)

RECURSIVE ProcessEntries(_, _, _, _, _)
ProcessEntries(st, e, data, order, i) ==
    IF i > Len(order) THEN st
    ELSE IF order[i] \in DOMAIN data
         THEN ProcessEntries(ProcessEntry(st, e, order[i], data[order[i]]),
                             e, data, order, i + 1)
         ELSE ProcessEntries(st, e, data, order, i + 1)

\* lines 166-175: hosts that are not alive are closed and removed
SweepTcp(st) ==
    LET dead == (DOMAIN st.hosts) \ st.alive
    IN  [st EXCEPT
            !.hosts = [k \in (DOMAIN st.hosts) \cap st.alive |-> st.hosts[k]],
            !.ev.closedProxy = @ \cup {[id |-> st.hosts[k].tsServer.id, host |-> k] : k \in dead},
            !.ev.closedTs = @ \cup {[id |-> st.hosts[k].tsServer.id, host |-> k] : k \in dead}]

\* lines 59-176, one iteration of the loop over payload.configMaps
ProcessConfigMap(st, e, configMap, order) ==
    IF configMap.Name # TCP_SERVICES_CONFIGMAP THEN st
    ELSE SweepTcp(ProcessEntries([st EXCEPT !.alive = {}], e, configMap.Data, order, 1))

RECURSIVE ProcessConfigMaps(_, _, _, _, _)
ProcessConfigMaps(st, e, configMaps, order, i) ==
    IF i > Len(configMaps) THEN st
    ELSE ProcessConfigMaps(ProcessConfigMap(st, e, configMaps[i], order),
                           e, configMaps, order, i + 1)

\* TcpController.update
updateTcp(hs, configMaps, e, order) ==
    ProcessConfigMaps([hosts |-> hs, used |-> HostIds(hs), ev |-> NoTcpEvents, alive |-> {}],
                      e, configMaps, order, 1)

\* faulty variant of shutdownTcp: the hosts are removed without being closed
shutdownTcpUnclosed(hs) == [hosts |-> EmptyMap, ev |-> NoTcpEvents]

\* TcpController.shutdown, lines 184-192: every host is closed and removed
shutdownTcp(hs) ==
    [hosts |-> EmptyMap,
     ev |-> [NoTcpEvents EXCEPT
                !.closedProxy = {[id |-> hs[k].tsServer.id, host |-> k] : k \in DOMAIN hs},
                !.closedTs = {[id |-> hs[k].tsServer.id, host |-> k] : k \in DOMAIN hs}]]

(***************************************************************************)
(* The Ingress snapshots and environments the HTTP passes are run on.      *)
(***************************************************************************)
Path(path, pathType, name, portName, portNumber) ==
    [Path |-> path, PathType |-> pathType, Service |-> TRUE,
     Name |-> name, PortName |-> portName, PortNumber |-> portNumber]

Rule(host, paths) == [Host |-> host, HTTP |-> TRUE, Paths |-> paths]

RuleWithoutHTTP(host) == [Host |-> host, HTTP |-> FALSE, Paths |-> <<>>]

Ingress(class, generation, rules) ==
    [Namespace |-> <<"n">>, Generation |-> generation, IngressClassName |-> class,
     Labels |-> {}, Annotations |-> {}, TLS |-> {}, DefaultBackend |-> FALSE,
     Rules |-> rules]

RootToX == Path(<<"/">>, "Prefix", <<"x">>, EmptyString, 80)

\* port name "h" resolves to one SRV record, port name "q" does not resolve,
\* the lookup of port name "e" succeeds with no record, port names "b" and "t"
\* resolve to the ports 40000 and 65535
SrvAnswers == (<<"h">> :> [err |-> FALSE, ports |-> <<8080>>])
           @@ (<<"q">> :> [err |-> TRUE, ports |-> <<>>])
           @@ (<<"e">> :> [err |-> FALSE, ports |-> <<>>])
           @@ (<<"b">> :> [err |-> FALSE, ports |-> <<40000, 8080>>])
           @@ (<<"t">> :> [err |-> FALSE, ports |-> <<65535>>])

CalmEnv == [srv |-> SrvAnswers, dirFail |-> {}, storeFail |-> {}, listen |-> EmptyMap]

\* Ingress objects that differ in class, generation and the hosts of their rules
DemoIngress(g) == Ingress(INGRESS_CLASS_NAME, g, <<Rule(<<"d">>, <<RootToX>>)>>)

AppIngress == Ingress(INGRESS_CLASS_NAME, 1, <<Rule(<<"a">>, <<RootToX>>)>>)

HostlessIngress ==
    Ingress(INGRESS_CLASS_NAME, 1, <<Rule(EmptyString, <<RootToX>>),
                                     Rule(<<"*", ".", "d">>, <<RootToX>>),
                                     RuleWithoutHTTP(<<"a">>)>>)

ForeignIngress == Ingress("nginx", MaxGeneration, <<Rule(<<"a">>, <<RootToX>>)>>)

HostIngresses ==
    {DemoIngress(g) : g \in 1..MaxGeneration}
    \cup {AppIngress, HostlessIngress, ForeignIngress}

HostPayloads ==
    {<<>>} \cup {<<i>> : i \in HostIngresses}
    \cup {<<DemoIngress(gk[1]), DemoIngress(gk[2])>> :
             gk \in {x \in (1..MaxGeneration) \X (1..MaxGeneration) : x[1] # x[2]}}
    \cup {<<DemoIngress(g), AppIngress>> : g \in 1..MaxGeneration}
    \cup {<<HostlessIngress, DemoIngress(1)>>}

HostEnvs ==
    {CalmEnv,
     [CalmEnv EXCEPT !.dirFail = {<<"d">>}],
     [CalmEnv EXCEPT !.listen = (<<"d">> :> "listenErr")]}

\* path lists of one rule: exact and prefix entries, entries of equal length,
\* an entry with a named port that resolves, one whose named port does not
\* resolve and one without a path type
ExactAB == Path(<<"/", "a", "/", "b">>, "Exact", <<"x">>, EmptyString, 80)
PrefixA == Path(<<"/", "a">>, "Prefix", <<"y">>, EmptyString, 80)
PrefixB == Path(<<"/", "b">>, "Prefix", <<"z">>, <<"h">>, 0)
PrefixAB == Path(<<"/", "a", "/", "b">>, "Prefix", <<"w">>, EmptyString, 80)
ExactUnresolved == Path(<<"/", "c">>, "Exact", <<"x">>, <<"q">>, 0)
PrefixUntyped == Path(<<"/", "a", "/">>, "nil", <<"x">>, EmptyString, 80)

PathEntries == {ExactAB, PrefixA, PrefixB, PrefixAB, ExactUnresolved, PrefixUntyped}

PathLists ==
    {<<>>} \cup {<<p>> : p \in PathEntries}
    \cup {<<ExactAB, q>> : q \in {PrefixA, PrefixAB, ExactUnresolved, PrefixUntyped}}
    \cup {<<q, ExactAB>> : q \in {PrefixA, PrefixAB, ExactUnresolved, PrefixUntyped}}
    \cup {<<PrefixA, ExactUnresolved>>, <<ExactUnresolved, PrefixA>>}
    \cup {<<PrefixA, PrefixB>>, <<PrefixB, PrefixA>>,
          <<PrefixA, PrefixAB>>, <<PrefixAB, PrefixA>>}
    \cup {<<PrefixA, PrefixB, PrefixAB>>, <<PrefixAB, PrefixB, PrefixA>>,
          <<PrefixB, PrefixAB, PrefixA>>}

RoutePayloads ==
    {<<Ingress(INGRESS_CLASS_NAME, 1, <<Rule(<<"d">>, l), Rule(<<"a">>, <<RootToX>>)>>)>> :
        l \in PathLists}

(***************************************************************************)
(* The ConfigMap snapshots and environments the TCP passes are run on.     *)
(***************************************************************************)
Db5 == <<"d", ".", "5">>
Db3 == <<"d", ".", "3">>
Dotless == <<"x">>

SourceSpecOrder == <<Db5, Db3, Dotless>>

ToPort5 == <<"p", ":", "5">>
ToNamedPort == <<"n", "/", "p", ":", "h">>
ToUnknownPort == <<"p", ":", "q">>
ToEmptyPort == <<"n", "/", "p", ":", "e">>
Colonless == <<"p">>

ConfigMap(name, data) == [Name |-> name, Data |-> data]

TcpData ==
    {EmptyMap, Db3 :> ToPort5, Dotless :> ToPort5}
    \cup {Db5 :> t : t \in {ToPort5, ToNamedPort, ToUnknownPort, ToEmptyPort, Colonless}}
    \cup {(Db5 :> t) @@ (Db3 :> ToPort5) : t \in {ToPort5, ToNamedPort, ToUnknownPort}}

TcpPayloads ==
    {<<>>, <<ConfigMap("kube-root-ca.crt", Db5 :> ToPort5)>>}
    \cup {<<ConfigMap(TCP_SERVICES_CONFIGMAP, d)>> : d \in TcpData}
    \cup {<<ConfigMap("kube-root-ca.crt", Db3 :> ToPort5),
            ConfigMap(TCP_SERVICES_CONFIGMAP, Db5 :> ToPort5)>>,
          <<ConfigMap(TCP_SERVICES_CONFIGMAP, Db5 :> ToPort5),
            ConfigMap(TCP_SERVICES_CONFIGMAP, Db3 :> ToPort5)>>,
          <<ConfigMap(TCP_SERVICES_CONFIGMAP, Db5 :> ToPort5),
            ConfigMap(TCP_SERVICES_CONFIGMAP, Db5 :> ToNamedPort)>>}

\* entries whose target names its port, and one with a port number
NamedTargets ==
    {ToPort5, ToNamedPort, ToUnknownPort, ToEmptyPort,
     <<"p", ":", "b">>, <<"n", "/", "p", ":", "t">>}

NamedPayloads ==
    {<<>>} \cup {<<ConfigMap(TCP_SERVICES_CONFIGMAP, Db5 :> t)>> : t \in NamedTargets}
    \cup {<<ConfigMap(TCP_SERVICES_CONFIGMAP, (Db5 :> t) @@ (Db3 :> ToNamedPort))>> :
              t \in NamedTargets}

\* no port name resolves
SrvDown == (<<"h">> :> [err |-> TRUE, ports |-> <<>>])
        @@ (<<"q">> :> [err |-> TRUE, ports |-> <<>>])

TcpEnvs ==
    {CalmEnv,
     [CalmEnv EXCEPT !.srv = SrvDown],
     [CalmEnv EXCEPT !.dirFail = {<<"d">>}],
     [CalmEnv EXCEPT !.listen = (<<"d">> :> "listenErr")]}

(***************************************************************************)
(* Snapshots that vary the metadata and the tls section of one Ingress.    *)
(***************************************************************************)
FlagIngress(labels, annotations, tls, generation) ==
    [DemoIngress(generation) EXCEPT !.Labels = labels, !.Annotations = annotations,
                                    !.TLS = tls]

FlagPayloads ==
    {<<>>}
    \cup {<<FlagIngress(m[1], m[2], t, g)>> :
             m \in {<<{}, {}>>, <<{Funnel}, {}>>, <<{}, {Funnel}>>},
             t \in {{}, {<<"d">>}}, g \in 1..MaxGeneration}

\* Ingress objects that declare a default backend next to their rules
BackendIngress(g) == [DemoIngress(g) EXCEPT !.DefaultBackend = TRUE]

BackendPayloads ==
    {<<>>, <<DemoIngress(1)>>, <<AppIngress>>}
    \cup {<<BackendIngress(g)>> : g \in 1..MaxGeneration}
    \cup {<<BackendIngress(g), AppIngress>> : g \in 1..MaxGeneration}

BackendEnvs == {CalmEnv, [CalmEnv EXCEPT !.listen = (<<"d">> :> "listenErr")]}

\* snapshots of two Ingress objects in both orders: the same host with other
\* flags, with a newer generation and other paths, and another host
OrderIngresses ==
    {DemoIngress(1),
     FlagIngress({Funnel}, {}, {}, 1),
     Ingress(INGRESS_CLASS_NAME, MaxGeneration, <<Rule(<<"d">>, <<PrefixA>>)>>),
     AppIngress}

OrderPayloads ==
    {<<>>} \cup {<<a, b>> : a \in OrderIngresses, b \in OrderIngresses}

\* passes of both controllers while the state directory or the state store of
\* host "d" cannot be created
StoreEnvs ==
    {CalmEnv,
     [CalmEnv EXCEPT !.dirFail = {<<"d">>}],
     [CalmEnv EXCEPT !.storeFail = {<<"d">>}]}

StoreHostPayloads == {<<>>, <<DemoIngress(1)>>}

StoreTcpPayloads == {<<>>, <<ConfigMap(TCP_SERVICES_CONFIGMAP, Db5 :> ToPort5)>>}

ListenEnvs ==
    {CalmEnv,
     [CalmEnv EXCEPT !.listen = (<<"d">> :> "listenErr")],
     [CalmEnv EXCEPT !.listen = (<<"d">> :> "clientErr")]}

(***************************************************************************)
(* The requests and peer-identity answers the handler is run on.           *)
(***************************************************************************)
Mallory == <<"mallory">>

NoHeader == EmptyMap

RequestHeaders ==
    {NoHeader,
     (XWebauthUser :> <<Mallory>>) @@ (XWebauthName :> <<Mallory>>),
     (XWebauthUser :> <<Mallory, Mallory>>),
     ("Connection" :> <<<<"x-webauth-user">>>>),
     ("Connection" :> <<<<"keep-alive", ",", "X-Webauth-Name">>>>) @@ (XWebauthName :> <<Mallory>>)}

Requests ==
    [Host : {<<"d">>, <<"d", ".", "t">>, <<"z">>, <<"e", ".", "x">>},
     Path : {<<"/", "a", "/", "b">>, <<"/", "b", "/", "x">>, <<"/", "c">>},
     RawQuery : {EmptyString, <<"k=v">>},
     Header : RequestHeaders]

NoRequest == [Host |-> EmptyString, Path |-> EmptyString, RawQuery |-> EmptyString,
              Header |-> NoHeader]

WhoIsFailed == [err |-> TRUE, profile |-> FALSE, LoginName |-> EmptyString,
                DisplayName |-> EmptyString]

WhoIsNoProfile == [WhoIsFailed EXCEPT !.err = FALSE]

WhoIsAlice == [err |-> FALSE, profile |-> TRUE, LoginName |-> <<"alice@x">>,
               DisplayName |-> <<"Alice">>]

WhoIsAnswers == {WhoIsFailed, WhoIsNoProfile, WhoIsAlice}

NoResponse == [status |-> "", message |-> EmptyString, forwarded |-> <<>>]

ServePayloads ==
    {<<Ingress(INGRESS_CLASS_NAME, 1, <<Rule(<<"d">>, l), Rule(<<"a">>, <<RootToX>>)>>)>> :
        l \in {<<>>, <<ExactAB, PrefixA>>, <<PrefixB>>}}
    \cup {<<AppIngress>>,
          <<Ingress(INGRESS_CLASS_NAME, 1, <<Rule(<<"e", ".", "x">>, <<PrefixB>>)>>)>>}

(***************************************************************************)
(* The snapshots and lookups of the passes that run beside readers.        *)
(***************************************************************************)
LockPayloads ==
    {<<Ingress(INGRESS_CLASS_NAME, g, <<Rule(<<"d">>, l), Rule(<<"a">>, <<RootToX>>)>>)>> :
        l \in {<<PrefixA, ExactAB>>, <<PrefixB>>}, g \in 1..MaxGeneration}
    \cup {<<AppIngress>>}

LookupHosts == {<<"d">>, <<"a">>}

LookupPaths == {<<"/", "a", "/", "b">>, <<"/", "b", "/", "x">>}

NoPass == [pc |-> "idle"]

NoReader == [pc |-> "idle"]

(***************************************************************************)
(* The initial state and the actions.                                      *)
(***************************************************************************)
(***************************************************************************)
(* The goroutines that call update and shutdown.  The debouncer runs each  *)
(* callback on a goroutine of its own, so two passes on one registry can   *)
(* be called at the same time; shutdown is called by the signal goroutine. *)
(***************************************************************************)
HttpUpdaters == {"http.update.1", "http.update.2"}
TcpUpdaters == {"tcp.update.1", "tcp.update.2"}
HttpCallers == HttpUpdaters \cup {"http.shutdown"}
TcpCallers == TcpUpdaters \cup {"tcp.shutdown"}
Callers == HttpCallers \cup TcpCallers

CallersOf(w) == IF w \in HttpCallers THEN HttpCallers ELSE TcpCallers

\* the mutex of the registry of caller w: held by the caller that is inside
MuOf(w) == [writer |-> \E v \in CallersOf(w) : cs[v] = "in", readers |-> 0]

HttpInit ==
    /\ hosts = EmptyMap
    /\ prevHosts = EmptyMap
    /\ payload = <<>>
    /\ env = CalmEnv
    /\ events = NoEvents
    /\ passes = 0
    /\ repeated = FALSE
    /\ httpOp = "init"
    /\ stopped = FALSE

TcpInit ==
    /\ tcpHosts = EmptyMap
    /\ prevTcpHosts = EmptyMap
    /\ tcpPayload = <<>>
    /\ tcpEnv = CalmEnv
    /\ tcpEvents = NoTcpEvents
    /\ tcpPasses = 0
    /\ tcpRepeated = FALSE
    /\ tcpMu = "free"
    /\ tcpOp = "init"
    /\ tcpStopped = FALSE

LockInit ==
    /\ mu = [writer |-> FALSE, readers |-> 0]
    /\ pass = NoPass
    /\ reader = NoReader

\* nobody has called update or shutdown; main and the signal goroutine have
\* not received from the signal channel, which is empty
ProcInit ==
    /\ cs = [w \in Callers |-> "out"]
    /\ proc = [signal |-> "none", main |-> "running", handler |-> "waiting",
               exited |-> FALSE]

ServeInit ==
    /\ request = NoRequest
    /\ whois = WhoIsFailed
    /\ response = NoResponse

\* one inbound request handled by the proxy server of a started host; the
\* history keeps one request for each registry the passes leave
ServeHTTP(r, who) ==
    /\ ~crashed
    /\ \E n \in DOMAIN hosts : hosts[n].started
    /\ response = NoResponse
    /\ request' = r
    /\ whois' = who
    /\ response' = handler(hosts, r, who)
    /\ UNCHANGED <<httpVars, tcpVars, lockVars, crashed>>
    /\ UNCHANGED procVars

\* lines 146-380: what one call of HttpController.update does to the registry
HttpUpdateBody(ingresses, e) ==
    /\ ~crashed
    /\ passes < MaxPasses
    /\ LET st == update(hosts, ingresses, e)
       IN  /\ hosts' = st.hosts
           /\ events' = st.ev
           /\ crashed' = st.crashed
    /\ prevHosts' = hosts
    /\ payload' = ingresses
    /\ env' = e
    /\ passes' = passes + 1
    /\ repeated' = (passes > 0 /\ ingresses = payload)
    /\ httpOp' = "update"
    /\ stopped' = stopped
    /\ request' = NoRequest
    /\ whois' = WhoIsFailed
    /\ response' = NoResponse

\* one call of HttpController.update, from taking the lock to releasing it
HttpUpdate(ingresses, e) ==
    /\ HttpUpdateBody(ingresses, e)
    /\ UNCHANGED <<tcpVars, lockVars, procVars>>

\* lines 55-177: what one call of TcpController.update does to the registry
TcpUpdateBody(configMaps, e) ==
    /\ ~crashed
    /\ tcpMu = "free"
    /\ tcpPasses < MaxPasses
    /\ LET st == updateTcp(tcpHosts, configMaps, e, SourceSpecOrder)
       IN  /\ tcpHosts' = st.hosts
           /\ tcpEvents' = st.ev
    /\ prevTcpHosts' = tcpHosts
    /\ tcpPayload' = configMaps
    /\ tcpEnv' = e
    /\ tcpPasses' = tcpPasses + 1
    /\ tcpRepeated' = (tcpPasses > 0 /\ configMaps = tcpPayload)
    /\ tcpOp' = "update"
    /\ UNCHANGED <<tcpMu, tcpStopped>>

\* one call of TcpController.update, from taking the lock to releasing it
TcpUpdate(configMaps, e) ==
    /\ TcpUpdateBody(configMaps, e)
    /\ UNCHANGED <<httpVars, serveVars, lockVars, procVars, crashed>>

\* lines 383-399: what HttpController.shutdown does to the registry
HttpShutdownBody ==
    /\ ~crashed
    /\ ~stopped
    /\ LET st == shutdown(hosts)
       IN  /\ hosts' = st.hosts
           /\ events' = st.ev
    /\ prevHosts' = hosts
    /\ httpOp' = "shutdown"
    /\ stopped' = TRUE
    /\ UNCHANGED <<payload, env, passes, repeated>>

\* one call of HttpController.shutdown, from taking the lock to releasing it
HttpShutdown ==
    /\ HttpShutdownBody
    /\ UNCHANGED <<tcpVars, serveVars, lockVars, procVars, crashed>>

\* TcpController.shutdown, lines 181-182: the lock is taken
TcpShutdownLock ==
    /\ ~crashed
    /\ ~tcpStopped
    /\ tcpMu = "free"
    /\ tcpMu' = "shutdown"
    /\ UNCHANGED <<tcpHosts, prevTcpHosts, tcpPayload, tcpEnv, tcpEvents, tcpPasses,
                   tcpRepeated, tcpOp, tcpStopped, httpVars, serveVars, lockVars, crashed>>
    /\ UNCHANGED procVars

\* TcpController.shutdown, lines 184-193: the hosts are closed, the lock is released
TcpShutdownBody ==
    /\ ~crashed
    /\ LET st == shutdownTcp(tcpHosts)
       IN  /\ tcpHosts' = st.hosts
           /\ tcpEvents' = st.ev
    /\ prevTcpHosts' = tcpHosts
    /\ tcpOp' = "shutdown"
    /\ tcpStopped' = TRUE
    /\ UNCHANGED <<tcpPayload, tcpEnv, tcpPasses, tcpRepeated>>

TcpShutdownRun ==
    /\ tcpMu = "shutdown"
    /\ TcpShutdownBody
    /\ tcpMu' = "free"
    /\ UNCHANGED <<httpVars, serveVars, lockVars, procVars, crashed>>

\* the registry as the statements of the pass under way have left it
Working == [hosts |-> hosts, used |-> pass.used, ev |-> pass.ev, skip |-> pass.skip,
            crashed |-> FALSE]

\* HttpController.update, lines 147-151: the lock is taken, the hosts are marked
UpdateLock(ingresses, e) ==
    /\ ~crashed
    /\ passes < MaxPasses
    /\ pass = NoPass
    /\ CanLock(mu)
    /\ mu' = [mu EXCEPT !.writer = TRUE]
    /\ hosts' = MarkDeleted(hosts)
    /\ pass' = [pc |-> "rules", before |-> hosts, ingresses |-> ingresses, e |-> e,
                items |-> Items(ingresses, 1), next |-> 1,
                used |-> HostIds(hosts), ev |-> NoEvents, skip |-> FALSE]
    /\ UNCHANGED <<prevHosts, payload, env, events, passes, repeated, httpOp, stopped,
                   tcpVars, serveVars, reader, crashed>>
    /\ UNCHANGED procVars

\* HttpController.update, lines 152-296: the next item of the snapshot
UpdateStep ==
    /\ ~crashed
    /\ pass.pc = "rules"
    /\ pass.next <= Len(pass.items)
    /\ LET st == StepItem(Working, pass.e, pass.ingresses, pass.items[pass.next])
       IN  /\ hosts' = st.hosts
           /\ crashed' = st.crashed
           /\ pass' = [pass EXCEPT !.next = @ + 1, !.used = st.used, !.ev = st.ev,
                                   !.skip = st.skip]
    /\ UNCHANGED <<prevHosts, payload, env, events, passes, repeated, httpOp, stopped,
                   tcpVars, serveVars, mu, reader>>
    /\ UNCHANGED procVars

\* HttpController.update, lines 297-380: the sweep, the lock is released
UpdateUnlock ==
    /\ ~crashed
    /\ pass.pc = "rules"
    /\ pass.next > Len(pass.items)
    /\ LET st == Sweep(Working, pass.e)
       IN  /\ hosts' = st.hosts
           /\ events' = st.ev
           /\ crashed' = st.crashed
    /\ prevHosts' = pass.before
    /\ payload' = pass.ingresses
    /\ env' = pass.e
    /\ passes' = passes + 1
    /\ repeated' = (passes > 0 /\ pass.ingresses = payload)
    /\ httpOp' = "update"
    /\ mu' = [mu EXCEPT !.writer = FALSE]
    /\ pass' = NoPass
    /\ UNCHANGED <<stopped, tcpVars, serveVars, reader>>
    /\ UNCHANGED procVars

\* the registry before the pass under way, and the one it will leave
RegistryBefore == IF pass = NoPass THEN hosts ELSE pass.before

RegistryAfter ==
    IF pass = NoPass THEN hosts ELSE update(pass.before, pass.ingresses, pass.e).hosts

\* a request handler calls getBackendUrl (line 342)
LookupCall(host, path) ==
    /\ ~crashed
    /\ reader = NoReader
    /\ reader' = [pc |-> "waiting", host |-> host, path |-> path, waited |-> mu.writer]
    /\ UNCHANGED <<httpVars, tcpVars, serveVars, mu, pass, crashed>>
    /\ UNCHANGED procVars

\* getBackendUrl, line 85: the lock is taken for reading
LookupRLock ==
    /\ ~crashed
    /\ reader.pc = "waiting"
    /\ CanRLock(mu)
    /\ mu' = [mu EXCEPT !.readers = @ + 1]
    /\ reader' = [reader EXCEPT !.pc = "locked"]
    /\ UNCHANGED <<httpVars, tcpVars, serveVars, pass, crashed>>
    /\ UNCHANGED procVars

\* getBackendUrl, lines 87-104: the lookup; pre and post record what the
\* registry before and after the pass under way would have answered
LookupRead ==
    /\ ~crashed
    /\ reader.pc = "locked"
    /\ reader' = [pc |-> "done", host |-> reader.host, path |-> reader.path,
                  waited |-> reader.waited,
                  result |-> getBackendUrl(hosts, reader.host, reader.path, EmptyString),
                  pre |-> getBackendUrl(RegistryBefore, reader.host, reader.path, EmptyString),
                  post |-> getBackendUrl(RegistryAfter, reader.host, reader.path, EmptyString)]
    /\ UNCHANGED <<httpVars, tcpVars, serveVars, mu, pass, crashed>>
    /\ UNCHANGED procVars

\* getBackendUrl, line 86: the lock is released on return
LookupRUnlock ==
    /\ ~crashed
    /\ reader.pc = "done"
    /\ mu' = [mu EXCEPT !.readers = @ - 1]
    /\ reader' = NoReader
    /\ UNCHANGED <<httpVars, tcpVars, serveVars, pass, crashed>>
    /\ UNCHANGED procVars

\* update or shutdown is called: the debounced callback fires, or the signal
\* goroutine reaches the call
CallerArrives(w) ==
    /\ ~crashed
    /\ cs[w] = "out"
    /\ w \in HttpUpdaters
       => passes + Cardinality({v \in HttpUpdaters : cs[v] # "out"}) < MaxPasses
    /\ w \in TcpUpdaters
       => tcpPasses + Cardinality({v \in TcpUpdaters : cs[v] # "out"}) < MaxPasses
    /\ w = "http.shutdown" => ~stopped
    /\ w = "tcp.shutdown" => ~tcpStopped
    /\ cs' = [cs EXCEPT ![w] = "waiting"]
    /\ UNCHANGED <<httpVars, tcpVars, serveVars, lockVars, proc, crashed>>

\* c.mu.Lock() (controller_http.go 147 and 384, controller_tcp.go 56 and 181)
CallerLocks(w) ==
    /\ ~crashed
    /\ cs[w] = "waiting"
    /\ CanLock(MuOf(w))
    /\ cs' = [cs EXCEPT ![w] = "in"]
    /\ UNCHANGED <<httpVars, tcpVars, serveVars, lockVars, proc, crashed>>

\* the body of the call and the deferred c.mu.Unlock()
HttpUpdaterLeaves(w, ingresses, e) ==
    /\ cs[w] = "in"
    /\ HttpUpdateBody(ingresses, e)
    /\ cs' = [cs EXCEPT ![w] = "out"]
    /\ UNCHANGED <<tcpVars, lockVars, proc>>

HttpStopperLeaves ==
    /\ cs["http.shutdown"] = "in"
    /\ HttpShutdownBody
    /\ cs' = [cs EXCEPT !["http.shutdown"] = "out"]
    /\ UNCHANGED <<tcpVars, serveVars, lockVars, proc, crashed>>

TcpUpdaterLeaves(w, configMaps, e) ==
    /\ cs[w] = "in"
    /\ TcpUpdateBody(configMaps, e)
    /\ cs' = [cs EXCEPT ![w] = "out"]
    /\ UNCHANGED <<httpVars, serveVars, lockVars, proc, crashed>>

TcpStopperLeaves ==
    /\ cs["tcp.shutdown"] = "in"
    /\ TcpShutdownBody
    /\ cs' = [cs EXCEPT !["tcp.shutdown"] = "out"]
    /\ UNCHANGED <<tcpMu, httpVars, serveVars, lockVars, proc, crashed>>

\* a termination signal is delivered: signal.Notify puts it into the channel
\* of capacity one (part_004 lines 33-34) unless the channel is full
SignalArrives ==
    /\ ~crashed
    /\ ~proc.exited
    /\ proc.signal = "none"
    /\ proc' = [proc EXCEPT !.signal = "queued"]
    /\ UNCHANGED <<httpVars, tcpVars, serveVars, lockVars, cs, crashed>>

\* part_004 line 46: main receives from the channel and returns, which ends
\* the process
MainReceives ==
    /\ ~crashed
    /\ ~proc.exited
    /\ proc.main = "running"
    /\ proc.signal = "queued"
    /\ proc' = [proc EXCEPT !.signal = "none", !.main = "returned", !.exited = TRUE]
    /\ UNCHANGED <<httpVars, tcpVars, serveVars, lockVars, cs, crashed>>

\* part_004 line 36: the signal goroutine receives from the channel
HandlerReceives ==
    /\ ~crashed
    /\ ~proc.exited
    /\ proc.handler = "waiting"
    /\ proc.signal = "queued"
    /\ proc' = [proc EXCEPT !.signal = "none", !.handler = "httpShutdown"]
    /\ UNCHANGED <<httpVars, tcpVars, serveVars, lockVars, cs, crashed>>

\* part_004 line 37: cHttp.shutdown()
HandlerStopsHttp ==
    /\ ~proc.exited
    /\ proc.handler = "httpShutdown"
    /\ HttpShutdownBody
    /\ proc' = [proc EXCEPT !.handler = "tcpShutdown"]
    /\ UNCHANGED <<tcpVars, serveVars, lockVars, cs, crashed>>

\* part_004 line 38: cTcp.shutdown()
HandlerStopsTcp ==
    /\ ~proc.exited
    /\ proc.handler = "tcpShutdown"
    /\ TcpShutdownBody
    /\ proc' = [proc EXCEPT !.handler = "exit"]
    /\ UNCHANGED <<tcpMu, httpVars, serveVars, lockVars, cs, crashed>>

\* part_004 lines 39-41: cancel() and os.Exit(0)
HandlerExits ==
    /\ ~crashed
    /\ ~proc.exited
    /\ proc.handler = "exit"
    /\ proc' = [proc EXCEPT !.handler = "done", !.exited = TRUE]
    /\ UNCHANGED <<httpVars, tcpVars, serveVars, lockVars, cs, crashed>>

\* the debounced callbacks of a process that has not exited
RunningUpdateHosts ==
    /\ ~proc.exited
    /\ \E p \in StoreHostPayloads : HttpUpdate(p, CalmEnv)

RunningUpdateTcp ==
    /\ ~proc.exited
    /\ \E p \in StoreTcpPayloads : TcpUpdate(p, CalmEnv)

UpdateHosts == \E p \in HostPayloads, e \in HostEnvs : HttpUpdate(p, e)

UpdateRoutes == \E p \in RoutePayloads : HttpUpdate(p, CalmEnv)

UpdateTcp == \E p \in TcpPayloads, e \in TcpEnvs : TcpUpdate(p, e)

UpdateBackend == \E p \in BackendPayloads, e \in BackendEnvs : HttpUpdate(p, e)

UpdateStoreHosts == \E p \in StoreHostPayloads, e \in StoreEnvs : HttpUpdate(p, e)

UpdateStoreTcp ==
    \E p \in StoreTcpPayloads, e \in StoreEnvs : TcpUpdate(p, e)

Arrive == \E w \in Callers : CallerArrives(w)

Enter == \E w \in Callers : CallerLocks(w)

LeaveHttpUpdate ==
    \E w \in HttpUpdaters, p \in StoreHostPayloads : HttpUpdaterLeaves(w, p, CalmEnv)

LeaveTcpUpdate ==
    \E w \in TcpUpdaters, p \in StoreTcpPayloads : TcpUpdaterLeaves(w, p, CalmEnv)

UpdateOrdered == \E p \in OrderPayloads : HttpUpdate(p, CalmEnv)

UpdateNamed ==
    \E p \in NamedPayloads, e \in {CalmEnv, [CalmEnv EXCEPT !.srv = SrvDown]} : TcpUpdate(p, e)

UpdateListeners == \E p \in FlagPayloads, e \in ListenEnvs : HttpUpdate(p, e)

UpdateServed == \E p \in ServePayloads : HttpUpdate(p, CalmEnv)

Serve == \E r \in Requests, who \in WhoIsAnswers : ServeHTTP(r, who)

UpdateBegin == \E p \in LockPayloads : UpdateLock(p, CalmEnv)

Lookup == \E h \in LookupHosts, path \in LookupPaths : LookupCall(h, path)

Init == HttpInit /\ TcpInit /\ ServeInit /\ LockInit /\ ProcInit /\ crashed = FALSE

\* the HTTP registry under snapshots that vary the hosts
SpecHttp == Init /\ [][UpdateHosts \/ HttpShutdown]_vars

\* the HTTP registry under snapshots that vary the path list of one rule
SpecRoutes == Init /\ [][UpdateRoutes]_vars

\* the TCP registry
SpecTcp == Init /\ [][UpdateTcp \/ TcpShutdownLock \/ TcpShutdownRun]_vars

\* passes over Ingress objects with and without a default backend
SpecBackend == Init /\ [][UpdateBackend]_vars

\* the callers of update and shutdown of both registries contending for the locks
SpecMutex ==
    Init /\ [][Arrive \/ Enter \/ LeaveHttpUpdate \/ HttpStopperLeaves
                \/ LeaveTcpUpdate \/ TcpStopperLeaves]_vars

\* the process from start to exit: passes of both controllers, termination
\* signals, main and the signal goroutine
SpecExit ==
    Init /\ [][RunningUpdateHosts \/ RunningUpdateTcp \/ SignalArrives \/ MainReceives
                \/ HandlerReceives \/ HandlerStopsHttp \/ HandlerStopsTcp
                \/ HandlerExits]_vars

\* the HTTP registry under snapshots that list two Ingress objects in both orders
SpecOrder == Init /\ [][UpdateOrdered]_vars

\* the TCP registry under entries whose targets name their ports
SpecResolve == Init /\ [][UpdateNamed]_vars

\* passes of both controllers under storage failures
SpecStore == Init /\ [][UpdateStoreHosts \/ UpdateStoreTcp]_vars

\* the HTTP registry under snapshots that vary the flags of one host
SpecListen == Init /\ [][UpdateListeners]_vars

\* the HTTP registry under passes and lookups that contend for the lock
SpecLock ==
    Init /\ [][UpdateBegin \/ UpdateStep \/ UpdateUnlock
                \/ Lookup \/ LookupRLock \/ LookupRead \/ LookupRUnlock]_vars

\* the proxy servers of the HTTP registry under inbound requests
SpecServe == Init /\ [][UpdateServed \/ Serve]_vars

(***************************************************************************)
(* Properties of the HTTP registry.                                        *)
(***************************************************************************)
\* the rules of an Ingress that the pass takes up (lines 158, 174-185)
ValidRule(ingress, rule) ==
    /\ ingress.IngressClassName = INGRESS_CLASS_NAME
    /\ rule.Host # EmptyString
    /\ ~Contains(rule.Host, "*")
    /\ rule.HTTP

\* the indices of the Ingress objects with a rule taken up for host
Declaring(ingresses, host) ==
    {i \in 1..Len(ingresses) :
        \E k \in 1..Len(ingresses[i].Rules) :
            /\ ValidRule(ingresses[i], ingresses[i].Rules[k])
            /\ ingresses[i].Rules[k].Host = host}

\* the positions <<i, k>> of the rules of a snapshot
RuleSlots(ingresses) ==
    UNION {{<<i, k>> : k \in 1..Len(ingresses[i].Rules)} : i \in 1..Len(ingresses)}

RuleHosts(ingresses) ==
    {ingresses[s[1]].Rules[s[2]].Host : s \in RuleSlots(ingresses)}

ValidHosts(ingresses) ==
    {ingresses[s[1]].Rules[s[2]].Host :
        s \in {t \in RuleSlots(ingresses) :
                  ValidRule(ingresses[t[1]], ingresses[t[1]].Rules[t[2]])}}

PassDone == passes > 0 /\ ~crashed /\ httpOp = "update"

\* the request paths looked up
RequestPaths ==
    {<<"/">>, <<"/", "a">>, <<"/", "b">>, <<"/", "c">>, <<"/", "a", "/">>,
     <<"/", "a", "/", "b">>, <<"/", "a", "/", "b", "/", "c">>, <<"/", "b", "/", "x">>,
     <<"x">>}

C3_RepeatedPassRestartsNothing ==
    (PassDone /\ repeated) =>
        \A h \in DOMAIN prevHosts :
            prevHosts[h].started =>
                /\ h \in DOMAIN hosts
                /\ hosts[h].tsServer = prevHosts[h].tsServer
                /\ hosts[h].httpServer = "serving"
                /\ hosts[h].started
                /\ \A c \in events.closedTs \cup events.closedHttp :
                       c.host # h /\ c.id # prevHosts[h].tsServer.id
                /\ \A c \in events.created : c.host # h
                /\ \A l \in events.listens : l.host # h

\* a repeated pass over a registry that holds a started host
C3_Witness ==
    /\ PassDone /\ repeated
    /\ \E h \in DOMAIN prevHosts : prevHosts[h].started
    /\ payload # <<>>

\* the case of C7: host h was registered when the pass began and exactly one
\* Ingress of the snapshot declares it
OneDeclares(h) ==
    /\ PassDone
    /\ h \in DOMAIN prevHosts
    /\ Cardinality(Declaring(payload, h)) = 1

DeclaredGeneration(h) ==
    payload[CHOOSE i \in Declaring(payload, h) : TRUE].Generation

Replaced(h) ==
    /\ h \in DOMAIN hosts
    /\ hosts[h].tsServer.id # prevHosts[h].tsServer.id
    /\ ~hosts[h].tsServer.closed
    /\ hosts[h].generation = DeclaredGeneration(h)
    /\ [id |-> prevHosts[h].tsServer.id, host |-> h] \in events.closedTs
    /\ [id |-> hosts[h].tsServer.id, host |-> h] \in events.created

Kept(h) ==
    /\ h \in DOMAIN hosts
    /\ hosts[h].tsServer = prevHosts[h].tsServer
    /\ ~hosts[h].tsServer.closed
    /\ \A c \in events.closedTs : c.host # h
    /\ \A c \in events.created : c.host # h

C23_ReplacedAsUnit ==
    \A h \in RuleHosts(payload) :
        (/\ OneDeclares(h)
         /\ DeclaredGeneration(h) > prevHosts[h].generation
         /\ prevHosts[h].httpServer # "nil")
        => /\ [id |-> prevHosts[h].tsServer.id, host |-> h] \in events.closedTs
           /\ [id |-> prevHosts[h].tsServer.id, host |-> h] \in events.closedHttp

\* C25 as stated: an Ingress that declares a default backend is skipped as a
\* whole; every host registered after a pass is declared by a rule of an
\* Ingress of the class that declares no default backend.
C25_DefaultBackendSkipped ==
    PassDone =>
        \A h \in DOMAIN hosts :
            \E i \in 1..Len(payload) :
                /\ ~payload[i].DefaultBackend
                /\ \E j \in 1..Len(payload[i].Rules) :
                       ValidRule(payload[i], payload[i].Rules[j])
                       /\ payload[i].Rules[j].Host = h

\* C26 as stated: no pass terminates the process, and a pass that sweeps a host
\* whose listener never opened closes its identity and removes it.
C26_TeardownSafe ==
    (passes > 0 /\ httpOp = "update") =>
        /\ ~crashed
        /\ \A h \in (DOMAIN prevHosts) \ ValidHosts(payload) :
               ~prevHosts[h].started =>
                   /\ h \notin DOMAIN hosts
                   /\ [id |-> prevHosts[h].tsServer.id, host |-> h] \in events.closedTs

C11_RemovedHostTornDown ==
    (passes > 0 /\ httpOp = "update") =>
        \A h \in (DOMAIN prevHosts) \ ValidHosts(payload) :
            /\ ~crashed
            /\ h \notin DOMAIN hosts
            /\ [id |-> prevHosts[h].tsServer.id, host |-> h] \in events.closedHttp
            /\ [id |-> prevHosts[h].tsServer.id, host |-> h] \in events.closedTs
            /\ \A path \in RequestPaths : ~getBackendUrl(hosts, h, path, EmptyString).found

\* C18 as stated: when HttpController.shutdown has returned, every host that
\* was in the registry, started or not, has had its proxy server (if it has one)
\* and its identity closed, and the registry is empty, so that nothing is left
\* listening.
C18_HttpShutdownClosesAll ==
    httpOp = "shutdown" =>
        /\ hosts = EmptyMap
        /\ \A n \in DOMAIN prevHosts :
               /\ [id |-> prevHosts[n].tsServer.id, host |-> n] \in events.closedTs
               /\ prevHosts[n].httpServer # "nil" =>
                      [id |-> prevHosts[n].tsServer.id, host |-> n] \in events.closedHttp

(***************************************************************************)
(* Properties of the routing tables.                                       *)
(***************************************************************************)
\* a routing entry without its history field
RouteOf(p) == [value |-> p.value, exact |-> p.exact, backend |-> p.backend]

ExactMap(h) == [k \in DOMAIN h.pathMap |-> RouteOf(h.pathMap[k])]

PrefixSeq(h) == [i \in 1..Len(h.pathPrefixes) |-> RouteOf(h.pathPrefixes[i])]

\* the positions of the rules whose path list the pass walks through
\* (lines 158, 174-185, 232), each the only rule of the snapshot for its host
RoutedSlots ==
    {s \in RuleSlots(payload) :
        /\ ValidRule(payload[s[1]], payload[s[1]].Rules[s[2]])
        /\ ~payload[s[1]].DefaultBackend
        /\ \A t \in RuleSlots(payload) :
               payload[t[1]].Rules[t[2]].Host = payload[s[1]].Rules[s[2]].Host => t = s}

\* the path has a type and a backend address in the environment of the pass
Routable(ingress, path) ==
    /\ path.PathType # "nil"
    /\ path.Service
    /\ BackendAddress(env, ingress, path).ok

Target(ingress, path) == BackendAddress(env, ingress, path).address

\* C4 as stated: a pass that repeats the snapshot of the pass before it leaves
\* every host's routing table (exact map, and prefix sequence with its length)
\* as it was.
C4_RepeatedPassSameRoutes ==
    (PassDone /\ repeated) =>
        \A h \in (DOMAIN hosts) \cap (DOMAIN prevHosts) :
            /\ ExactMap(hosts[h]) = ExactMap(prevHosts[h])
            /\ PrefixSeq(hosts[h]) = PrefixSeq(prevHosts[h])

\* C5 as stated, for prefixes shorter than p: a rule whose path list holds an
\* Exact entry for p and otherwise only Prefix entries that are string-prefixes
\* of p, with other targets, in any order, makes a lookup of p resolve to the
\* Exact entry's target.
C5_ExactOutranksPrefix ==
    PassDone =>
        \A s \in RoutedSlots :
            LET ingress == payload[s[1]]
                rule == ingress.Rules[s[2]]
                n == Len(rule.Paths)
            IN  \A k \in 1..n :
                    (/\ rule.Paths[k].PathType = PathTypeExact
                     /\ Routable(ingress, rule.Paths[k])
                     /\ \A j \in (1..n) \ {k} :
                            /\ rule.Paths[j].PathType = "Prefix"
                            /\ Routable(ingress, rule.Paths[j])
                            /\ HasPrefix(rule.Paths[k].Path, rule.Paths[j].Path)
                            /\ Len(rule.Paths[j].Path) < Len(rule.Paths[k].Path)
                            /\ Target(ingress, rule.Paths[j]) # Target(ingress, rule.Paths[k]))
                    => LET r == getBackendUrl(hosts, rule.Host, rule.Paths[k].Path, EmptyString)
                       IN  r.found /\ r.url.Host = Target(ingress, rule.Paths[k])

\* the prefix entries of l that match path
Matching(l, path) == {i \in 1..Len(l) : HasPrefix(path, l[i].value)}

\* the longest of them, the one inserted first among those of equal length
Longest(l, path) ==
    CHOOSE i \in Matching(l, path) :
        \A j \in Matching(l, path) :
            \/ Len(l[j].value) < Len(l[i].value)
            \/ Len(l[j].value) = Len(l[i].value) /\ l[i].ord <= l[j].ord

\* C6: the prefix sequence of every host is sorted by descending length, entries
\* of equal length in insertion order, and a request path without exact entry
\* resolves to the target of the longest prefix entry that is a string-prefix of
\* it (the first inserted among equals), or to nothing when there is none.
C6_LongestPrefixWins ==
    \A h \in DOMAIN hosts :
        LET l == hosts[h].pathPrefixes
        IN  /\ \A i \in 1..Len(l), j \in 1..Len(l) :
                   i < j => \/ Len(l[i].value) > Len(l[j].value)
                            \/ Len(l[i].value) = Len(l[j].value) /\ l[i].ord < l[j].ord
            /\ \A path \in RequestPaths \ DOMAIN hosts[h].pathMap :
                   LET r == getBackendUrl(hosts, h, path, EmptyString)
                   IN  IF Matching(l, path) = {}
                       THEN ~r.found
                       ELSE /\ r.found
                            /\ r.url.Host = l[Longest(l, path)].backend.Host
                            /\ r.url.Path = path

\* a request path that two prefixes of different length and two of equal length
\* compete for, the longest not being the one inserted first
C6_Witness ==
    \E h \in DOMAIN hosts : \E path \in RequestPaths \ DOMAIN hosts[h].pathMap :
        LET l == hosts[h].pathPrefixes
        IN  /\ \E i \in Matching(l, path), j \in Matching(l, path) :
                   Len(l[i].value) > Len(l[j].value) /\ l[i].ord > l[j].ord
            /\ \E i \in 1..Len(l), j \in 1..Len(l) :
                   i # j /\ Len(l[i].value) = Len(l[j].value) /\ l[i].value # l[j].value
            /\ getBackendUrl(hosts, h, path, EmptyString).found

\* the raw queries looked up
RawQueries == {EmptyString, <<"k=v">>}

\* C21 as stated: every successful lookup, by exact entry or by prefix, returns
\* a URL with the scheme and authority of the matched entry's backend, the
\* request path as its path and the request's raw query as its query.
C21_RouteKeepsPathAndQuery ==
    \A h \in DOMAIN hosts : \A path \in RequestPaths : \A q \in RawQueries :
        LET r == getBackendUrl(hosts, h, path, q)
            l == hosts[h].pathPrefixes
            backend == IF path \in DOMAIN hosts[h].pathMap
                       THEN hosts[h].pathMap[path].backend
                       ELSE l[Longest(l, path)].backend
        IN  r.found =>
                /\ r.url.Scheme = backend.Scheme
                /\ r.url.Host = backend.Host
                /\ r.url.Path = path
                /\ r.url.RawQuery = q

\* the routing entries that the path list of a rule yields
Derived(ingress, rule) ==
    {[value |-> rule.Paths[j].Path,
      exact |-> (rule.Paths[j].PathType = PathTypeExact),
      backend |-> [Scheme |-> "http", Host |-> Target(ingress, rule.Paths[j])]] :
        j \in {i \in 1..Len(rule.Paths) : Routable(ingress, rule.Paths[i])}}

\* C22 as stated: after a pass, the exact map and the prefix sequence of the
\* host of a rule hold no entry but those that the rule's path list yields, and
\* the prefix sequence holds each Prefix entry of the list once.
C22_NoStaleRoutes ==
    PassDone =>
        \A s \in RoutedSlots :
            LET ingress == payload[s[1]]
                rule == ingress.Rules[s[2]]
                h == hosts[rule.Host]
            IN  /\ \A k \in DOMAIN h.pathMap : RouteOf(h.pathMap[k]) \in Derived(ingress, rule)
                /\ \A i \in 1..Len(h.pathPrefixes) :
                       RouteOf(h.pathPrefixes[i]) \in Derived(ingress, rule)
                /\ \A d \in Derived(ingress, rule) :
                       ~d.exact => \E i \in 1..Len(h.pathPrefixes) : RouteOf(h.pathPrefixes[i]) = d
                /\ Len(h.pathPrefixes) =
                       Cardinality({j \in 1..Len(rule.Paths) :
                                       /\ Routable(ingress, rule.Paths[j])
                                       /\ rule.Paths[j].PathType # PathTypeExact})

\* C10 as stated: when a rule's path list holds an entry whose named port does
\* not resolve, every other entry of the list that has a type and resolves is in
\* the host's routing table after the pass (exact map or prefix sequence),
\* wherever the failing entry stands.
C10_UnresolvedPortIsolated ==
    PassDone =>
        \A s \in RoutedSlots :
            LET ingress == payload[s[1]]
                rule == ingress.Rules[s[2]]
                n == Len(rule.Paths)
            IN  (\E k \in 1..n : rule.Paths[k].PortName # EmptyString
                                 /\ ~BackendAddress(env, ingress, rule.Paths[k]).ok)
                => \A j \in 1..n :
                       Routable(ingress, rule.Paths[j]) =>
                           LET p == rule.Paths[j]
                               h == hosts[rule.Host]
                           IN  IF p.PathType = PathTypeExact
                               THEN /\ p.Path \in DOMAIN h.pathMap
                                    /\ h.pathMap[p.Path].backend.Host = Target(ingress, p)
                               ELSE \E i \in 1..Len(h.pathPrefixes) :
                                       /\ h.pathPrefixes[i].value = p.Path
                                       /\ h.pathPrefixes[i].backend.Host = Target(ingress, p)

(***************************************************************************)
(* Properties of the listeners.                                            *)
(***************************************************************************)
\* the hosts that the sweep of the last pass started
StartedByPass ==
    {n \in DOMAIN hosts :
        /\ hosts[n].started
        /\ [id |-> hosts[n].tsServer.id, host |-> n, listener |-> hosts[n].listener]
               \in events.listens}

\* C15 as stated: a host started by the sweep listens on :443 with public
\* exposure and no TLS wrapper if useFunnel is set, else on :443 under a TLS
\* wrapper if useTls is set, else on :80 without wrapper; a host of the tls
\* section never listens on :80.
C15_ListenerSelection ==
    PassDone =>
        \A n \in StartedByPass :
            LET h == hosts[n]
            IN  /\ h.listener =
                       IF h.useFunnel
                       THEN [addr |-> ":443", funnel |-> TRUE, tls |-> FALSE]
                       ELSE IF h.useTls
                            THEN [addr |-> ":443", funnel |-> FALSE, tls |-> TRUE]
                            ELSE [addr |-> ":80", funnel |-> FALSE, tls |-> FALSE]
                /\ h.useTls => h.listener.addr # ":80"

\* C16 as stated: a host started by the sweep, declared by one Ingress of the
\* snapshot, has a Funnel listener if and only if that Ingress carries the
\* annotation tailscale.com/funnel.
C16_FunnelByAnnotation ==
    PassDone =>
        \A n \in StartedByPass :
            Cardinality(Declaring(payload, n)) = 1 =>
                (hosts[n].listener.funnel <=>
                    Funnel \in payload[CHOOSE i \in Declaring(payload, n) : TRUE].Annotations)

(***************************************************************************)
(* Properties of the request handler.                                      *)
(***************************************************************************)
\* a request has been handled on the registry as it is
Served == response # NoResponse

\* the hostname of the request: the Host header up to its first separator
RequestHostname == Cut(request.Host, ".").before

\* the registry has a host for the request's hostname and the host's table has
\* an exact or a prefix match for the request path
HasRoute ==
    /\ RequestHostname \in DOMAIN hosts
    /\ \/ request.Path \in DOMAIN hosts[RequestHostname].pathMap
       \/ Matching(hosts[RequestHostname].pathPrefixes, request.Path) # {}

\* C13 as stated: when the peer-identity lookup yields a profile, the request
\* sent to the backend carries X-Webauth-User with the one value LoginName and
\* X-Webauth-Name with the one value DisplayName, whatever the client sent.
C13_IdentityHeadersSet ==
    (Served /\ HasRoute /\ ~whois.err /\ whois.profile) =>
        /\ Len(response.forwarded) = 1
        /\ XWebauthUser \in DOMAIN response.forwarded[1].Header
        /\ response.forwarded[1].Header[XWebauthUser] = <<whois.LoginName>>
        /\ XWebauthName \in DOMAIN response.forwarded[1].Header
        /\ response.forwarded[1].Header[XWebauthName] = <<whois.DisplayName>>

\* C14 as stated: when the peer-identity lookup fails or yields no profile, a
\* request with a route is still sent to the backend, once, and the request
\* sent carries neither X-Webauth-User nor X-Webauth-Name, whatever the client
\* sent.
C14_NoIdentityHeadersOnFailure ==
    (Served /\ HasRoute /\ (whois.err \/ ~whois.profile)) =>
        /\ response.status = "proxied"
        /\ Len(response.forwarded) = 1
        /\ XWebauthUser \notin DOMAIN response.forwarded[1].Header
        /\ XWebauthName \notin DOMAIN response.forwarded[1].Header

\* the registered hosts the Host header of the request names: the hostname
\* itself, or the hostname followed by a '.'-separated suffix
NamedHosts ==
    {h \in DOMAIN hosts :
        request.Host = h \/ HasPrefix(request.Host, h \o <<".">>)}

\* C33 as stated: a request whose Host header names a registered host and whose
\* path the table of that host matches is forwarded to the backend that table
\* gives.
C33_RegisteredHostReachable ==
    Served =>
        \A h \in NamedHosts :
            LET r == getBackendUrl(hosts, h, request.Path, request.RawQuery)
            IN  r.found => /\ response.status = "proxied"
                           /\ Len(response.forwarded) = 1
                           /\ response.forwarded[1].URL = r.url

\* C17: a request without route (no host for its hostname, or no exact or
\* prefix match for its path) is answered 404 with the text "upstream server
\* <hostname> not found" and nothing is sent to a backend; a request with a
\* route is sent to a backend exactly once.
C17_NotFoundOrForwardedOnce ==
    Served =>
        IF HasRoute
        THEN /\ response.status = "proxied"
             /\ Len(response.forwarded) = 1
        ELSE /\ response.status = "404"
             /\ response.message = <<"upstream server ">> \o RequestHostname \o <<" not found">>
             /\ response.forwarded = <<>>

\* a request for a registered host answered 404 because no path matched
C17_Witness ==
    /\ Served
    /\ RequestHostname \in DOMAIN hosts
    /\ hosts[RequestHostname].pathPrefixes # <<>>
    /\ ~HasRoute
    /\ response.status = "404"

(***************************************************************************)
(* Properties of the lock.                                                 *)
(***************************************************************************)
\* the statements of a pass, one by one, leave what update leaves as a whole
StepwiseIsUpdate ==
    (pass = NoPass /\ passes > 0 /\ ~crashed) => hosts = update(prevHosts, payload, env).hosts

\* C20: the result of a backend lookup is the answer of the registry as it was
\* before the pass under way or the answer of the registry as that pass leaves
\* it (of the registry as it is, when no pass is under way), never the answer
\* of a registry in between.
C20_LookupSeesWholePasses ==
    reader.pc = "done" => reader.result \in {reader.pre, reader.post}

\* a lookup that found a pass under way when it was called, waited, and got an
\* answer that the registry before that pass would not have given
C20_Witness ==
    /\ reader.pc = "done"
    /\ reader.waited
    /\ reader.result.found
    /\ reader.result # getBackendUrl(prevHosts, reader.host, reader.path, EmptyString)

(***************************************************************************)
(* Properties of the TCP registry.                                         *)
(***************************************************************************)
TcpPassDone == tcpPasses > 0 /\ ~crashed /\ tcpOp = "update"

\* the positions of the snapshot's ConfigMaps that carry the configured name
Configured(configMaps) ==
    {i \in 1..Len(configMaps) : configMaps[i].Name = TCP_SERVICES_CONFIGMAP}

\* the snapshot holds the configured ConfigMap, once
OneConfigMap == Cardinality(Configured(tcpPayload)) = 1

TheData == tcpPayload[CHOOSE i \in Configured(tcpPayload) : TRUE].Data

\* <host>.<port> -> [<ns>/]<service>:<port>
WellFormed(sourceSpec, targetSpec) ==
    Cut(sourceSpec, ".").found /\ Cut(targetSpec, ":").found

\* the target of the entry resolves in the environment of the pass
Resolves(targetSpec) ==
    LET t == Cut(targetSpec, ":")
    IN  resolveTargetAddress(tcpEnv.srv, TargetAddress(t.before), t.after).ok

\* the entry is the one the registered host was built from
Unchanged(k) ==
    /\ k \in DOMAIN TheData
    /\ k \in DOMAIN prevTcpHosts
    /\ prevTcpHosts[k].signature = Signature(k, TheData[k])

\* C2 as stated, for passes in which state-directory creation succeeded and no
\* unchanged entry stopped resolving: after a pass over a snapshot with the
\* configured ConfigMap, the keys of the registry are exactly the well-formed
\* source specs of its data whose target resolves.
C2_TcpKeysMatchSnapshot ==
    (/\ TcpPassDone /\ OneConfigMap /\ tcpEnv.dirFail = {}
     /\ \A k \in DOMAIN TheData : Unchanged(k) => Resolves(TheData[k]))
    => DOMAIN tcpHosts =
           {k \in DOMAIN TheData : WellFormed(k, TheData[k]) /\ Resolves(TheData[k])}

\* C8: a pass that carries the entry a registered host was built from leaves
\* that host as it is, whether or not the target still resolves: its route and
\* identity are not closed, and none is created for its sourceSpec.
C8_UnchangedEntryUntouched ==
    (TcpPassDone /\ OneConfigMap) =>
        \A k \in DOMAIN prevTcpHosts :
            Unchanged(k) =>
                /\ k \in DOMAIN tcpHosts
                /\ tcpHosts[k] = prevTcpHosts[k]
                /\ \A c \in tcpEvents.closedProxy \cup tcpEvents.closedTs : c.host # k
                /\ \A c \in tcpEvents.created \cup tcpEvents.routes : c.host # k

\* an open host whose unchanged entry no longer resolves
C8_Witness ==
    /\ TcpPassDone /\ OneConfigMap
    /\ \E k \in DOMAIN prevTcpHosts :
           /\ Unchanged(k)
           /\ ~Resolves(TheData[k])
           /\ ~prevTcpHosts[k].proxy.closed
           /\ tcpHosts[k] = prevTcpHosts[k]

\* the entry of k differs from the one the registered, live host was built from
SignatureChanged(k) ==
    /\ k \in DOMAIN TheData
    /\ WellFormed(k, TheData[k])
    /\ k \in DOMAIN prevTcpHosts
    /\ ~prevTcpHosts[k].proxy.closed
    /\ prevTcpHosts[k].signature # Signature(k, TheData[k])

\* the old host of k is closed and a new one, with a new identity, an open route
\* to the new target and the new signature, is registered under k
Recreated(k) ==
    LET t == Cut(TheData[k], ":")
        s == Cut(k, ".")
    IN  /\ [id |-> prevTcpHosts[k].tsServer.id, host |-> k] \in tcpEvents.closedProxy
        /\ [id |-> prevTcpHosts[k].tsServer.id, host |-> k] \in tcpEvents.closedTs
        /\ k \in DOMAIN tcpHosts
        /\ tcpHosts[k].tsServer.id # prevTcpHosts[k].tsServer.id
        /\ ~tcpHosts[k].tsServer.closed
        /\ ~tcpHosts[k].proxy.closed
        /\ tcpHosts[k].proxy.route =
               [listen |-> <<":">> \o s.after,
                to |-> resolveTargetAddress(tcpEnv.srv, TargetAddress(t.before), t.after).address]
        /\ tcpHosts[k].signature = Signature(k, TheData[k])

SnapshotKeys(configMaps) ==
    UNION {DOMAIN configMaps[i].Data : i \in Configured(configMaps)}

\* C24 as stated: after every TCP pass every registered host has an open
\* route and an open identity.
C24_NoDeadTcpHost ==
    TcpPassDone =>
        \A k \in DOMAIN tcpHosts :
            ~tcpHosts[k].proxy.closed /\ ~tcpHosts[k].tsServer.closed

\* C28 as stated: a pass that carries the unchanged entry of a registered host
\* whose route is not listening starts the route again.
C28_TcpListenerRetry ==
    (TcpPassDone /\ OneConfigMap) =>
        \A k \in DOMAIN prevTcpHosts :
            (/\ Unchanged(k)
             /\ ~prevTcpHosts[k].proxy.closed
             /\ ~prevTcpHosts[k].proxy.listening)
            => \E r \in tcpEvents.routes : r.host = k

\* C29 as stated: for every entry of the snapshot whose port token is no
\* integer and whose SRV lookup fails or returns no record,
\* resolveTargetAddress returns an error and no address.
C29_NoAddressOnEmptyAnswer ==
    (TcpPassDone /\ OneConfigMap) =>
        \A k \in DOMAIN TheData :
            LET t == Cut(TheData[k], ":")
                a == LookupSRV(tcpEnv.srv, t.after)
                r == resolveTargetAddress(tcpEnv.srv, TargetAddress(t.before), t.after)
            IN  (t.found /\ ~Atoi(t.after).ok /\ (a.err \/ Len(a.ports) = 0))
                => ~r.ok /\ r.address = EmptyString

\* C30 as stated: a host is registered by a pass only if its state directory and
\* its state store were created; no registered identity has a missing store.
C30_StorageFailureSkips ==
    /\ PassDone =>
           \A h \in DOMAIN hosts :
               /\ hosts[h].tsServer.Store # <<"nil">>
               /\ [id |-> hosts[h].tsServer.id, host |-> h] \in events.created
                  => h \notin env.dirFail \cup env.storeFail
    /\ TcpPassDone =>
           \A k \in DOMAIN tcpHosts :
               /\ tcpHosts[k].tsServer.Store # <<"nil">>
               /\ [id |-> tcpHosts[k].tsServer.id, host |-> k] \in tcpEvents.created
                  => Cut(k, ".").before \notin tcpEnv.dirFail \cup tcpEnv.storeFail

\* C12 as stated: every host that was registered when a pass began and whose
\* key the snapshot no longer carries, be it dropped from the configured
\* ConfigMap or the ConfigMap itself gone, has its route and identity closed by
\* the pass and is no key of the registry after it.
C12_TcpRemovedHostTornDown ==
    TcpPassDone =>
        \A k \in (DOMAIN prevTcpHosts) \ SnapshotKeys(tcpPayload) :
            /\ k \notin DOMAIN tcpHosts
            /\ [id |-> prevTcpHosts[k].tsServer.id, host |-> k] \in tcpEvents.closedProxy
            /\ [id |-> prevTcpHosts[k].tsServer.id, host |-> k] \in tcpEvents.closedTs

\* C19: when TcpController.shutdown has returned, every host that was in the
\* registry has had its route and identity closed and the registry is empty;
\* and while shutdown holds the lock nothing but shutdown changes the registry.
C19_TcpShutdownClosesAll ==
    /\ [](tcpOp = "shutdown" =>
             /\ tcpHosts = EmptyMap
             /\ \A k \in DOMAIN prevTcpHosts :
                    /\ [id |-> prevTcpHosts[k].tsServer.id, host |-> k] \in tcpEvents.closedProxy
                    /\ [id |-> prevTcpHosts[k].tsServer.id, host |-> k] \in tcpEvents.closedTs)
    /\ [][tcpMu = "shutdown" =>
             /\ tcpPasses' = tcpPasses
             /\ tcpHosts' # tcpHosts => (tcpOp' = "shutdown" /\ tcpMu' = "free")]_vars

\* a shutdown of a registry that held hosts
C19_Witness ==
    /\ tcpOp = "shutdown"
    /\ Cardinality(DOMAIN prevTcpHosts) > 1
    /\ tcpHosts = EmptyMap


(***************************************************************************)
(* Properties of the locks and of the process.                             *)
(***************************************************************************)
\* C31: for each registry at most one caller of update or shutdown is inside
\* its critical section.
C31_WritersExcluded ==
    /\ Cardinality({w \in HttpCallers : cs[w] = "in"}) <= 1
    /\ Cardinality({w \in TcpCallers : cs[w] = "in"}) <= 1

\* an HTTP pass and a TCP pass overlap while a second HTTP pass and the HTTP
\* shutdown wait for the lock
C31_Witness ==
    /\ cs["http.update.1"] = "in"
    /\ cs["http.update.2"] = "waiting"
    /\ cs["http.shutdown"] = "waiting"
    /\ \E w \in TcpUpdaters : cs[w] = "in"
    /\ hosts # EmptyMap
\* C32 as stated: when the process has exited after a termination signal, both
\* shutdowns have run to completion.
C32_ShutdownBeforeExit == proc.exited => (stopped /\ tcpStopped)

\* C35 as stated: a pass that runs after shutdown has returned for its registry
\* creates no identity and opens no listener or route; the registry stays empty.
C35_NoResurrection ==
    /\ (stopped /\ httpOp = "update")
       => (hosts = EmptyMap /\ events.created = {} /\ events.listens = {})
    /\ (tcpStopped /\ tcpOp = "update")
       => (tcpHosts = EmptyMap /\ tcpEvents.created = {} /\ tcpEvents.routes = {})
\* C34 as stated: no two live identities of the TCP registry share a state
\* directory or a state-store name.
C34_UniqueIdentityStorage ==
    \A k1 \in DOMAIN tcpHosts : \A k2 \in DOMAIN tcpHosts :
        (k1 # k2 /\ ~tcpHosts[k1].tsServer.closed /\ ~tcpHosts[k2].tsServer.closed)
        => /\ tcpHosts[k1].tsServer.Dir # tcpHosts[k2].tsServer.Dir
           /\ tcpHosts[k1].tsServer.Store # tcpHosts[k2].tsServer.Store
(***************************************************************************)
(* Properties of the HTTP registry that relate two passes.                 *)
(***************************************************************************)
Reverse(l) == [i \in 1..Len(l) |-> l[Len(l) + 1 - i]]

\* what the claims observe of a host: generation, flags and what its routing
\* table answers
Summary(hs, h) ==
    [generation |-> hs[h].generation,
     useTls |-> hs[h].useTls,
     useFunnel |-> hs[h].useFunnel,
     enableLogging |-> hs[h].enableLogging,
     RunWebClient |-> hs[h].tsServer.RunWebClient,
     routes |-> [path \in RequestPaths |-> getBackendUrl(hs, h, path, EmptyString)]]

Summaries(hs) == [h \in DOMAIN hs |-> Summary(hs, h)]

\* C36 as stated: the registry a pass leaves is the one the pass would have
\* left had the snapshot listed its Ingress objects in the reverse order.
C36_OrderIndependent ==
    PassDone =>
        LET other == update(prevHosts, Reverse(payload), env)
        IN  ~other.crashed /\ Summaries(other.hosts) = Summaries(hosts)
\* C37 as stated, with the flags read where the pass reads them (the labels and
\* the tls section): after a pass over a snapshot in which one Ingress declares
\* a host, the flags of the host are those of that Ingress.
C37_FlagsTrackSnapshot ==
    PassDone =>
        \A h \in DOMAIN hosts :
            \A i \in Declaring(payload, h) :
                Cardinality(Declaring(payload, h)) = 1 =>
                    /\ hosts[h].useTls = (h \in payload[i].TLS)
                    /\ hosts[h].useFunnel = (Funnel \in payload[i].Labels)
                    /\ hosts[h].enableLogging = ("tailscale.com/logging" \in payload[i].Labels)
                    /\ hosts[h].tsServer.RunWebClient
                           = ("tailscale.com/webclient" \in payload[i].Labels)
\* C38 as stated: in a pass over a snapshot with more than one ConfigMap of the
\* configured name no host the pass created is closed by the same pass, and a
\* pass that repeats the snapshot of the pass before closes and opens no route.
C38_SeveralConfigMaps ==
    (TcpPassDone /\ Cardinality(Configured(tcpPayload)) > 1) =>
        /\ tcpEvents.created \cap tcpEvents.closedProxy = {}
        /\ tcpRepeated => (tcpEvents.routes = {} /\ tcpEvents.closedProxy = {})
(***************************************************************************)
(* Properties of resolveTargetAddress.                                     *)
(***************************************************************************)
\* C39 as stated: for every entry of the snapshot whose port token names a port
\* and whose SRV answer has a first record with a port n in 0..65535,
\* resolveTargetAddress returns "<address>:<n>".
C39_PortValueKept ==
    (TcpPassDone /\ OneConfigMap) =>
        \A k \in DOMAIN TheData :
            LET t == Cut(TheData[k], ":")
                a == LookupSRV(tcpEnv.srv, t.after)
                r == resolveTargetAddress(tcpEnv.srv, TargetAddress(t.before), t.after)
            IN  (/\ t.found /\ ~Atoi(t.after).ok /\ ~a.err /\ Len(a.ports) > 0
                 /\ a.ports[1] \in 0..65535)
                => /\ r.ok
                   /\ r.address = TargetAddress(t.before) \o <<":">> \o Itoa(a.ports[1])
====
